---- MODULE Spec2Model ----
(***************************************************************************)
(* File-Storage backend: role/visibility access policy, upload validation, *)
(* and the request handlers of backend/routers/files.py running against a  *)
(* shared relational store and an S3 object store.                         *)
(***************************************************************************)
EXTENDS Integers, FiniteSets, Sequences, TLC

(* ------------------------------------------------------------------ *)
(* Bounds of the model                                                 *)
(* ------------------------------------------------------------------ *)

\* number of download requests that may pass the access check
MaxDownloads == 2
\* number of departments the access policy is probed with
MaxDepts == 2
\* number of calls to the database, the bucket or the queue that may fail
MaxFaults == 1

(* ------------------------------------------------------------------ *)
(* backend/roles.py                                                    *)
(* ------------------------------------------------------------------ *)

USER == "user"
MANAGER == "manager"
ADMIN == "admin"
UserRole == {USER, MANAGER, ADMIN}

PRIVATE == "private"
DEPARTMENT == "department"
PUBLIC == "public"
FileVisibility == {PRIVATE, DEPARTMENT, PUBLIC}

(* ------------------------------------------------------------------ *)
(* backend/models.py                                                   *)
(* ------------------------------------------------------------------ *)

\* a NULL column (department_id is nullable on users and on files)
None == 0

\* the row that db.get / scalar_one_or_none return when no row matches
NoFile == [owner_id |-> 0, department_id |-> None, visibility |-> "none",
           s3_path |-> 0, downloads |-> 0, ext |-> "none",
           author |-> None, title |-> None, created_date |-> None,
           page_count |-> None, creator_tool |-> None,
           paragraph_count |-> None, table_count |-> None]

\* the metadata columns of table files
MetadataColumns == {"author", "title", "created_date", "page_count",
                    "creator_tool", "paragraph_count", "table_count"}

File_TitleFromFilename(owner_id, department_id, visibility, s3_path, ext) ==
    [owner_id |-> owner_id, department_id |-> department_id,
     visibility |-> visibility, s3_path |-> s3_path, downloads |-> 0,
     ext |-> ext,
     author |-> None, title |-> 1, created_date |-> None,
     page_count |-> None, creator_tool |-> None,
     paragraph_count |-> None, table_count |-> None]

File_NoDepartment(owner_id, department_id, visibility, s3_path, ext) ==
    [owner_id |-> owner_id, department_id |-> None,
     visibility |-> visibility, s3_path |-> s3_path, downloads |-> 0,
     ext |-> ext,
     author |-> None, title |-> None, created_date |-> None,
     page_count |-> None, creator_tool |-> None,
     paragraph_count |-> None, table_count |-> None]

\* a row of table files as upload_file builds it (downloads defaults to 0,
\* the metadata columns to NULL); ext is what follows the last "." of
\* filename
File(owner_id, department_id, visibility, s3_path, ext) ==
    [owner_id |-> owner_id, department_id |-> department_id,
     visibility |-> visibility, s3_path |-> s3_path, downloads |-> 0,
     ext |-> ext,
     author |-> None, title |-> None, created_date |-> None,
     page_count |-> None, creator_tool |-> None,
     paragraph_count |-> None, table_count |-> None]

\* a row of table users, as get_current_user hands it to the handlers
User(id, role, department_id) ==
    [id |-> id, role |-> role, department_id |-> department_id]

NoUser == [id |-> 0, role |-> "none", department_id |-> None]

(* ------------------------------------------------------------------ *)
(* HTTP status codes used by the handlers                              *)
(* ------------------------------------------------------------------ *)

HTTP_200_OK == 200
HTTP_201_CREATED == 201
HTTP_204_NO_CONTENT == 204
HTTP_307_REDIRECT == 307
HTTP_400_BAD_REQUEST == 400
HTTP_403_FORBIDDEN == 403
HTTP_404_NOT_FOUND == 404
HTTP_409_CONFLICT == 409
HTTP_413_REQUEST_ENTITY_TOO_LARGE == 413
HTTP_500_INTERNAL_SERVER_ERROR == 500

(* ------------------------------------------------------------------ *)
(* backend/dependencies.py: the access policy                          *)
(* ------------------------------------------------------------------ *)

\* Outcome of a dependency: the status it raises (200 when it returns the
\* file) and the file it returns.
Raise(status_code) == [status |-> status_code, file |-> NoFile]
Return(file) == [status |-> HTTP_200_OK, file |-> file]

get_file_for_user_PolicyFirst(file, current_user) ==
    IF current_user.role = ADMIN
    THEN IF file = NoFile THEN Raise(HTTP_404_NOT_FOUND) ELSE Return(file)
    ELSE IF file = NoFile THEN Raise(HTTP_403_FORBIDDEN)
    ELSE IF file.owner_id = current_user.id THEN Return(file)
    ELSE IF file.visibility = PUBLIC THEN Return(file)
    ELSE IF /\ file.visibility = DEPARTMENT
            /\ current_user.role = MANAGER
         THEN Return(file)
    ELSE IF /\ file.visibility = DEPARTMENT
            /\ current_user.department_id = file.department_id
         THEN Return(file)
    ELSE Raise(HTTP_403_FORBIDDEN)

get_file_for_user_DepartmentFirst(file, current_user) ==
    IF file = NoFile THEN Raise(HTTP_404_NOT_FOUND)
    ELSE IF current_user.role = ADMIN THEN Return(file)
    ELSE IF file.owner_id = current_user.id THEN Return(file)
    ELSE IF file.department_id = current_user.department_id
         THEN Return(file)
    ELSE IF file.visibility = PUBLIC THEN Return(file)
    ELSE IF file.visibility = DEPARTMENT /\ current_user.role = MANAGER
         THEN Return(file)
    ELSE Raise(HTTP_403_FORBIDDEN)

get_file_for_user_NoManagerRule(file, current_user) ==
    IF file = NoFile THEN Raise(HTTP_404_NOT_FOUND)
    ELSE IF current_user.role = ADMIN THEN Return(file)
    ELSE IF file.owner_id = current_user.id THEN Return(file)
    ELSE IF file.visibility = PUBLIC THEN Return(file)
    ELSE IF /\ file.visibility = DEPARTMENT
            /\ current_user.department_id = file.department_id
         THEN Return(file)
    ELSE Raise(HTTP_403_FORBIDDEN)

get_file_for_user_ManagerOfDepartment(file, current_user) ==
    IF file = NoFile THEN Raise(HTTP_404_NOT_FOUND)
    ELSE IF current_user.role = ADMIN THEN Return(file)
    ELSE IF file.owner_id = current_user.id THEN Return(file)
    ELSE IF file.visibility = PUBLIC THEN Return(file)
    ELSE IF /\ current_user.role = MANAGER
            /\ current_user.department_id = file.department_id
         THEN Return(file)
    ELSE IF /\ file.visibility = DEPARTMENT
            /\ \/ current_user.role = MANAGER
               \/ current_user.department_id = file.department_id
         THEN Return(file)
    ELSE Raise(HTTP_403_FORBIDDEN)

\* get_file_for_user: `file` is the row selected by id (NoFile when absent)
get_file_for_user(file, current_user) ==
    IF file = NoFile THEN Raise(HTTP_404_NOT_FOUND)
    ELSE IF current_user.role = ADMIN THEN Return(file)
    ELSE IF file.owner_id = current_user.id THEN Return(file)
    ELSE IF file.visibility = PUBLIC THEN Return(file)
    ELSE IF /\ file.visibility = DEPARTMENT
            /\ current_user.role = MANAGER
         THEN Return(file)
    ELSE IF /\ file.visibility = DEPARTMENT
            /\ current_user.department_id = file.department_id
         THEN Return(file)
    ELSE Raise(HTTP_403_FORBIDDEN)

get_file_to_delete_DepartmentIsSet(file, current_user) ==
    IF file = NoFile THEN Raise(HTTP_404_NOT_FOUND)
    ELSE IF current_user.role = ADMIN THEN Return(file)
    ELSE IF /\ current_user.role = MANAGER
            /\ current_user.department_id # None
            /\ current_user.department_id = file.department_id
         THEN Return(file)
    ELSE IF /\ current_user.role = USER
            /\ current_user.id = file.owner_id
         THEN Return(file)
    ELSE Raise(HTTP_403_FORBIDDEN)

get_file_to_delete_PolicyFirst(file, current_user) ==
    IF \/ current_user.role = ADMIN
       \/ /\ current_user.role = MANAGER
          /\ file.department_id = current_user.department_id
       \/ /\ current_user.role = USER
          /\ file.owner_id = current_user.id
    THEN IF file = NoFile THEN Raise(HTTP_404_NOT_FOUND) ELSE Return(file)
    ELSE Raise(HTTP_403_FORBIDDEN)

get_file_to_delete_AnyOwner(file, current_user) ==
    IF file = NoFile THEN Raise(HTTP_404_NOT_FOUND)
    ELSE IF current_user.role = ADMIN THEN Return(file)
    ELSE IF /\ current_user.role = MANAGER
            /\ current_user.department_id = file.department_id
         THEN Return(file)
    ELSE IF current_user.id = file.owner_id THEN Return(file)
    ELSE Raise(HTTP_403_FORBIDDEN)

\* get_file_to_delete: `file` is db.get(models.File, file_id)
get_file_to_delete(file, current_user) ==
    IF file = NoFile THEN Raise(HTTP_404_NOT_FOUND)
    ELSE IF current_user.role = ADMIN THEN Return(file)
    ELSE IF /\ current_user.role = MANAGER
            /\ current_user.department_id = file.department_id
         THEN Return(file)
    ELSE IF /\ current_user.role = USER
            /\ current_user.id = file.owner_id
         THEN Return(file)
    ELSE Raise(HTTP_403_FORBIDDEN)

(* ------------------------------------------------------------------ *)
(* backend/routers/files.py: list_files                                *)
(* ------------------------------------------------------------------ *)

\* a variant that compares the departments as SQL does with `=`, where
\* NULL equals nothing
list_files_where_SqlNull(file, current_user) ==
    IF current_user.role = MANAGER
    THEN \/ file.visibility = PUBLIC
         \/ file.visibility = DEPARTMENT
    ELSE IF current_user.role = USER
    THEN \/ file.visibility = PUBLIC
         \/ /\ file.visibility = DEPARTMENT
            /\ file.department_id # None
            /\ file.department_id = current_user.department_id
         \/ /\ file.visibility = PRIVATE
            /\ file.owner_id = current_user.id
    ELSE TRUE

list_files_where_AnyDepartment(file, current_user) ==
    IF current_user.role = MANAGER
    THEN \/ file.visibility = PUBLIC
         \/ file.visibility = DEPARTMENT
    ELSE IF current_user.role = USER
    THEN \/ file.visibility = PUBLIC
         \/ file.visibility = DEPARTMENT
         \/ /\ file.visibility = PRIVATE
            /\ file.owner_id = current_user.id
    ELSE TRUE

list_files_where_ManagerOwnDepartment(file, current_user) ==
    IF current_user.role = MANAGER
    THEN \/ file.visibility = PUBLIC
         \/ /\ file.visibility = DEPARTMENT
            /\ file.department_id = current_user.department_id
    ELSE IF current_user.role = USER
    THEN \/ file.visibility = PUBLIC
         \/ /\ file.visibility = DEPARTMENT
            /\ file.department_id = current_user.department_id
         \/ /\ file.visibility = PRIVATE
            /\ file.owner_id = current_user.id
    ELSE TRUE

\* the WHERE clause list_files adds to the query for the actor's role
list_files_where(file, current_user) ==
    IF current_user.role = MANAGER
    THEN \/ file.visibility = PUBLIC
         \/ file.visibility = DEPARTMENT
    ELSE IF current_user.role = USER
    THEN \/ file.visibility = PUBLIC
         \/ /\ file.visibility = DEPARTMENT
            /\ file.department_id = current_user.department_id
         \/ /\ file.visibility = PRIVATE
            /\ file.owner_id = current_user.id
    ELSE TRUE

\* list_files: the ids of the rows of `table` the query returns
list_files(table, current_user) ==
    {id \in DOMAIN table :
        /\ table[id] # NoFile
        /\ list_files_where(table[id], current_user)}

(* ------------------------------------------------------------------ *)
(* backend/routers/files.py: upload validation                         *)
(* ------------------------------------------------------------------ *)

PDF == "application/pdf"
DOCX == "application/vnd.openxmlformats-officedocument.wordprocessingml.document"
\* some content type that is neither of the two
TEXT_PLAIN == "text/plain"

ALLOWED_FILE_TYPES_USER_WithDocx == {PDF, DOCX}

ALLOWED_FILE_TYPES_USER == {PDF}
ALLOWED_MIMETYPES_MANAGER_ADMIN == {PDF, DOCX}

MAX_FILE_SIZE_USER == 10 * 1024 * 1024
MAX_FILE_SIZE_MANAGER == 50 * 1024 * 1024
MAX_FILE_SIZE_ADMIN == 100 * 1024 * 1024

upload_file_checks_SizeFirst(role, visibility, content_type, size) ==
    IF role = USER THEN
        IF visibility # PRIVATE THEN HTTP_403_FORBIDDEN
        ELSE IF size > MAX_FILE_SIZE_USER
             THEN HTTP_413_REQUEST_ENTITY_TOO_LARGE
        ELSE IF content_type \notin ALLOWED_FILE_TYPES_USER
             THEN HTTP_400_BAD_REQUEST
        ELSE HTTP_201_CREATED
    ELSE IF role = MANAGER THEN
        IF size > MAX_FILE_SIZE_MANAGER
        THEN HTTP_413_REQUEST_ENTITY_TOO_LARGE
        ELSE IF content_type \notin ALLOWED_MIMETYPES_MANAGER_ADMIN
             THEN HTTP_400_BAD_REQUEST
        ELSE HTTP_201_CREATED
    ELSE
        IF size > MAX_FILE_SIZE_ADMIN
        THEN HTTP_413_REQUEST_ENTITY_TOO_LARGE
        ELSE IF content_type \notin ALLOWED_MIMETYPES_MANAGER_ADMIN
             THEN HTTP_400_BAD_REQUEST
        ELSE HTTP_201_CREATED

upload_file_checks_TypeFirst(role, visibility, content_type, size) ==
    IF role = USER THEN
        IF content_type \notin ALLOWED_FILE_TYPES_USER
        THEN HTTP_400_BAD_REQUEST
        ELSE IF visibility # PRIVATE THEN HTTP_403_FORBIDDEN
        ELSE IF size > MAX_FILE_SIZE_USER
             THEN HTTP_413_REQUEST_ENTITY_TOO_LARGE
        ELSE HTTP_201_CREATED
    ELSE IF role = MANAGER THEN
        IF size > MAX_FILE_SIZE_MANAGER
        THEN HTTP_413_REQUEST_ENTITY_TOO_LARGE
        ELSE IF content_type \notin ALLOWED_MIMETYPES_MANAGER_ADMIN
             THEN HTTP_400_BAD_REQUEST
        ELSE HTTP_201_CREATED
    ELSE
        IF size > MAX_FILE_SIZE_ADMIN
        THEN HTTP_413_REQUEST_ENTITY_TOO_LARGE
        ELSE IF content_type \notin ALLOWED_MIMETYPES_MANAGER_ADMIN
             THEN HTTP_400_BAD_REQUEST
        ELSE HTTP_201_CREATED

upload_file_checks_AtLeast(role, visibility, content_type, size) ==
    IF role = USER THEN
        IF visibility # PRIVATE THEN HTTP_403_FORBIDDEN
        ELSE IF content_type \notin ALLOWED_FILE_TYPES_USER
             THEN HTTP_400_BAD_REQUEST
        ELSE IF size >= MAX_FILE_SIZE_USER
             THEN HTTP_413_REQUEST_ENTITY_TOO_LARGE
        ELSE HTTP_201_CREATED
    ELSE IF role = MANAGER THEN
        IF size >= MAX_FILE_SIZE_MANAGER
        THEN HTTP_413_REQUEST_ENTITY_TOO_LARGE
        ELSE IF content_type \notin ALLOWED_MIMETYPES_MANAGER_ADMIN
             THEN HTTP_400_BAD_REQUEST
        ELSE HTTP_201_CREATED
    ELSE
        IF size >= MAX_FILE_SIZE_ADMIN
        THEN HTTP_413_REQUEST_ENTITY_TOO_LARGE
        ELSE IF content_type \notin ALLOWED_MIMETYPES_MANAGER_ADMIN
             THEN HTTP_400_BAD_REQUEST
        ELSE HTTP_201_CREATED

\* The role-dependent checks at the head of upload_file: the status of the
\* HTTPException raised, or 201 when every check passes and the handler
\* goes on to store the file.
upload_file_checks(role, visibility, content_type, size) ==
    IF role = USER THEN
        IF visibility # PRIVATE THEN HTTP_403_FORBIDDEN
        ELSE IF content_type \notin ALLOWED_FILE_TYPES_USER
             THEN HTTP_400_BAD_REQUEST
        ELSE IF size > MAX_FILE_SIZE_USER
             THEN HTTP_413_REQUEST_ENTITY_TOO_LARGE
        ELSE HTTP_201_CREATED
    ELSE IF role = MANAGER THEN
        IF size > MAX_FILE_SIZE_MANAGER
        THEN HTTP_413_REQUEST_ENTITY_TOO_LARGE
        ELSE IF content_type \notin ALLOWED_MIMETYPES_MANAGER_ADMIN
             THEN HTTP_400_BAD_REQUEST
        ELSE HTTP_201_CREATED
    ELSE IF role = ADMIN THEN
        IF size > MAX_FILE_SIZE_ADMIN
        THEN HTTP_413_REQUEST_ENTITY_TOO_LARGE
        ELSE IF content_type \notin ALLOWED_MIMETYPES_MANAGER_ADMIN
             THEN HTTP_400_BAD_REQUEST
        ELSE HTTP_201_CREATED
    ELSE HTTP_201_CREATED


(* ------------------------------------------------------------------ *)
(* State                                                               *)
(* ------------------------------------------------------------------ *)

VARIABLES
    users,       \* table users: id -> row
    files,       \* table files: id -> row, NoFile where no row has the id
    nextFileId,  \* the autoincrement primary key of table files
    nextKey,     \* uuid.uuid4(): the next fresh storage key
    s3,          \* the bucket: the keys that hold an object
    jobs,        \* the Celery queue: file ids passed to extract_metadata.delay
    reqs,        \* the requests in flight, one per slot
    response,    \* the response sent last (Untracked: responses not recorded)
    s3_puts,     \* history: keys whose upload_fileobj call succeeded
    s3_deletes,  \* history: keys whose delete_object call succeeded
    failed,      \* history: the calls that raised, <<call, key or file id>>
    commits,     \* history: per file id, committed download increments
    grants,      \* history: per file id, redirects to a signed URL returned
    probe,       \* an (actor, table) pair the access policy is applied to
    gate,        \* an upload's parameters the upload checks are applied to
    worker,      \* the Celery worker: the task it runs and the row it holds
    ran,         \* history: file ids whose extract_metadata task returned
    step         \* the number of requests of a scripted session sent so far

dbVars == <<users, files, nextFileId>>
storeVars == <<nextKey, s3, jobs, s3_puts, s3_deletes>>
histVars == <<commits, grants>>
workerVars == <<worker, ran>>
pureVars == <<probe, gate, step>>
vars == <<users, files, nextFileId, nextKey, s3, jobs, reqs, response,
          s3_puts, s3_deletes, failed, commits, grants, probe, gate,
          worker, ran, step>>

\* the ids table files may hand out, and with them the storage keys
FileIds == {1}
\* requests that may be in flight at the same time
Slots == {1, 2}

\* the users the database is seeded with (tests/conftest.py: test_user,
\* test_another_user, test_manager, test_admin)
SeedUsers == <<User(1, USER, 1), User(2, USER, 1),
               User(3, MANAGER, 2), User(4, ADMIN, 5)>>

\* the seeded users by their fixtures
test_user == 1
test_another_user == 2
test_manager == 3
test_admin == 4

\* filename extensions: what follows the last "." of file.filename
Exts == {"pdf", "docx", "txt"}

\* sizes in bytes an upload may have: the limits and their neighbours
Sizes == {0, 1,
          MAX_FILE_SIZE_USER - 1, MAX_FILE_SIZE_USER,
          MAX_FILE_SIZE_USER + 1, 11 * 1024 * 1024,
          MAX_FILE_SIZE_MANAGER - 1, MAX_FILE_SIZE_MANAGER,
          MAX_FILE_SIZE_MANAGER + 1, 51 * 1024 * 1024,
          MAX_FILE_SIZE_ADMIN - 1, MAX_FILE_SIZE_ADMIN,
          MAX_FILE_SIZE_ADMIN + 1, 101 * 1024 * 1024}

ContentTypes == {PDF, DOCX, TEXT_PLAIN}

\* what the uploads of the running system are drawn from; the upload
\* checks are applied to all of ContentTypes and Sizes under SpecGate
RequestContentTypes == {PDF, DOCX}
RequestSizes == {MAX_FILE_SIZE_USER}

\* a request in flight: the handler it runs, where it stands, the path
\* parameter and the ORM object it holds (the handlers of download and
\* delete take no current_user: once the dependency has decided, the actor
\* plays no part)
Request(op, pc, file_id, file) ==
    [op |-> op, pc |-> pc, file_id |-> file_id, file |-> file]

Idle == Request("none", "idle", 0, NoFile)

\* schemas.FileOut: the columns of a row that a response carries
\* (filename stands as its extension)
FileOut(id, file) ==
    [id |-> id, filename |-> file.ext, visibility |-> file.visibility,
     department_id |-> file.department_id,
     author |-> file.author, title |-> file.title,
     created_date |-> file.created_date, page_count |-> file.page_count,
     creator_tool |-> file.creator_tool,
     paragraph_count |-> file.paragraph_count,
     table_count |-> file.table_count]

NoBody == FileOut(0, NoFile)

\* a response: the handler returned or raised; body is the file a 2xx
\* response of get_file_info carries
Response(op, file_id, status_code, listing) ==
    [op |-> op, file_id |-> file_id, status |-> status_code,
     listing |-> listing, body |-> NoBody]

NoResponse == Response("none", 0, 0, {})
Untracked == Response("untracked", 0, 0, {})

Send(r) == IF response = Untracked THEN Untracked ELSE r

\* the response of the request in slot s
Respond(s, status_code) ==
    Send(Response(reqs[s].op, reqs[s].file_id, status_code, {}))

\* a new request takes the first handler that is free
Free(s) == /\ reqs[s] = Idle
           /\ \A q \in DOMAIN reqs : q < s => reqs[q] # Idle

\* the outcomes of a call that may raise: TRUE it returns, FALSE it raises
Outcomes == IF Cardinality(failed) < MaxFaults THEN BOOLEAN ELSE {TRUE}
Failure(call, n) == failed \cup {<<call, n>>}

RECURSIVE Sum(_, _)
Sum(f, S) == IF S = {} THEN 0
             ELSE LET x == CHOOSE y \in S : TRUE
                  IN f[x] + Sum(f, S \ {x})

\* a probe of the access policy: an actor, a table of files and the id of
\* one of them; then what GET, DELETE and the listing answer (0: not asked
\* yet) and the table a DELETE without failures leaves
Probe(current_user, table, file_id) ==
    [current_user |-> current_user, table |-> table, file_id |-> file_id,
     read |-> 0, delete |-> 0, after |-> table, listed |-> FALSE,
     listing |-> {}]

NoProbe == Probe(NoUser, <<>>, 0)

\* the worker: idle, or inside process_file_async for file_id, holding
\* the row session.get returned
Work(pc, file_id, file) == [pc |-> pc, file_id |-> file_id, file |-> file]
NoWork == Work("idle", 0, NoFile)

NoGate == [role |-> "none", visibility |-> "none", content_type |-> "none",
           size |-> 0, status |-> 0]

InitSystem ==
    /\ users = SeedUsers
    /\ files = [id \in FileIds |-> NoFile]
    /\ nextFileId = 1
    /\ nextKey = 1
    /\ s3 = {}
    /\ jobs = {}
    /\ reqs = [s \in Slots |-> Idle]
    /\ s3_puts = {}
    /\ s3_deletes = {}
    /\ failed = {}
    /\ commits = [id \in FileIds |-> 0]
    /\ grants = [id \in FileIds |-> 0]
    /\ worker = NoWork
    /\ ran = {}
    /\ step = 0

Init ==
    /\ InitSystem
    /\ response = Untracked
    /\ probe = NoProbe
    /\ gate = NoGate

(* ------------------------------------------------------------------ *)
(* GET /files/{file_id} and GET /files/                                 *)
(* ------------------------------------------------------------------ *)

get_file_info(s, u, file_id) ==
    /\ Free(s)
    /\ LET got == get_file_for_user(files[file_id], users[u])
       IN response' = Send([Response("get_file_info", file_id,
                                     got.status, {})
                             EXCEPT !.body = IF got.status = HTTP_200_OK
                                             THEN FileOut(file_id, got.file)
                                             ELSE NoBody])
    /\ UNCHANGED <<dbVars, storeVars, reqs, failed, histVars, workerVars, pureVars>>

list_files_request(s, u) ==
    /\ Free(s)
    /\ response' = Send(Response("list_files", 0, HTTP_200_OK,
                                 list_files(files, users[u])))
    /\ UNCHANGED <<dbVars, storeVars, reqs, failed, histVars, workerVars, pureVars>>

(* ------------------------------------------------------------------ *)
(* GET /files/{file_id}/download                                       *)
(* ------------------------------------------------------------------ *)

\* download requests that hold a row and have not committed
Incrementing ==
    {s \in DOMAIN reqs :
        reqs[s].op = "download_file" /\ reqs[s].pc = "commit"}

\* the dependency get_file_for_user loads the row; the handler body then
\* runs `file.downloads += 1` on the loaded object up to `await db.commit()`
download_file(s, u, file_id) ==
    /\ Free(s)
    /\ LET got == get_file_for_user(files[file_id], users[u])
       IN IF got.status # HTTP_200_OK
          THEN /\ response' = Send(Response("download_file", file_id,
                                            got.status, {}))
               /\ UNCHANGED reqs
          ELSE /\ Sum(commits, DOMAIN commits) + Cardinality(Incrementing)
                      < MaxDownloads
               /\ reqs' = [reqs EXCEPT ![s] =
                      Request("download_file", "commit", file_id,
                              [got.file EXCEPT !.downloads = @ + 1])]
               /\ UNCHANGED response
    /\ UNCHANGED <<dbVars, storeVars, failed, histVars, workerVars, pureVars>>

\* `await db.commit()`: UPDATE files SET downloads = <value held> WHERE id;
\* an UPDATE that matches no row (the row was deleted meanwhile) raises
download_file_commit(s) ==
    /\ reqs[s].op = "download_file"
    /\ reqs[s].pc = "commit"
    /\ \E ok \in Outcomes :
        IF ok /\ files[reqs[s].file_id] # NoFile
        THEN /\ files' = [files EXCEPT ![reqs[s].file_id].downloads =
                              reqs[s].file.downloads]
             /\ commits' = [commits EXCEPT ![reqs[s].file_id] = @ + 1]
             /\ reqs' = [reqs EXCEPT ![s].pc = "presign"]
             /\ UNCHANGED <<response, failed>>
        ELSE /\ response' = Respond(s, HTTP_500_INTERNAL_SERVER_ERROR)
             /\ reqs' = [reqs EXCEPT ![s] = Idle]
             /\ failed' = IF ok THEN failed
                          ELSE Failure("commit_download", reqs[s].file_id)
             /\ UNCHANGED <<files, commits>>
    /\ UNCHANGED <<users, nextFileId, storeVars, grants, workerVars, pureVars>>

\* create_presigned_url, then RedirectResponse
create_presigned_url(s) ==
    /\ reqs[s].op = "download_file"
    /\ reqs[s].pc = "presign"
    /\ \E ok \in Outcomes :
        IF ok
        THEN /\ grants' = [grants EXCEPT ![reqs[s].file_id] = @ + 1]
             /\ response' = Respond(s, HTTP_307_REDIRECT)
             /\ UNCHANGED failed
        ELSE /\ response' = Respond(s, HTTP_500_INTERNAL_SERVER_ERROR)
             /\ failed' = Failure("generate_presigned_url", reqs[s].file_id)
             /\ UNCHANGED grants
    /\ reqs' = [reqs EXCEPT ![s] = Idle]
    /\ UNCHANGED <<dbVars, storeVars, commits, workerVars, pureVars>>

(* ------------------------------------------------------------------ *)
(* DELETE /files/{file_id}                                             *)
(* ------------------------------------------------------------------ *)

\* the dependency get_file_to_delete loads the row and decides
delete_file(s, u, file_id) ==
    /\ Free(s)
    /\ LET got == get_file_to_delete(files[file_id], users[u])
       IN IF got.status # HTTP_200_OK
          THEN /\ response' = Send(Response("delete_file", file_id,
                                            got.status, {}))
               /\ UNCHANGED reqs
          ELSE /\ reqs' = [reqs EXCEPT ![s] =
                      Request("delete_file", "s3", file_id, got.file)]
               /\ UNCHANGED response
    /\ UNCHANGED <<dbVars, storeVars, failed, histVars, workerVars, pureVars>>

delete_file_from_s3_Swallowed(s) ==
    /\ reqs[s].op = "delete_file"
    /\ reqs[s].pc = "s3"
    /\ \E ok \in Outcomes :
        IF ok
        THEN /\ s3' = s3 \ {reqs[s].file.s3_path}
             /\ s3_deletes' = s3_deletes \cup {reqs[s].file.s3_path}
             /\ UNCHANGED failed
        ELSE /\ failed' = Failure("delete_object", reqs[s].file.s3_path)
             /\ UNCHANGED <<s3, s3_deletes>>
    /\ reqs' = [reqs EXCEPT ![s].pc = "commit"]
    /\ UNCHANGED <<dbVars, nextKey, jobs, response, s3_puts, histVars,
                   workerVars, pureVars>>

\* delete_file_from_s3: delete_object removes the key (deleting a key that
\* holds no object succeeds too) or raises, and the handler ends there
delete_file_from_s3(s) ==
    /\ reqs[s].op = "delete_file"
    /\ reqs[s].pc = "s3"
    /\ \E ok \in Outcomes :
        IF ok
        THEN /\ s3' = s3 \ {reqs[s].file.s3_path}
             /\ s3_deletes' = s3_deletes \cup {reqs[s].file.s3_path}
             /\ reqs' = [reqs EXCEPT ![s].pc = "commit"]
             /\ UNCHANGED <<response, failed>>
        ELSE /\ response' = Respond(s, HTTP_500_INTERNAL_SERVER_ERROR)
             /\ reqs' = [reqs EXCEPT ![s] = Idle]
             /\ failed' = Failure("delete_object", reqs[s].file.s3_path)
             /\ UNCHANGED <<s3, s3_deletes>>
    /\ UNCHANGED <<dbVars, nextKey, jobs, s3_puts, histVars, workerVars, pureVars>>

\* a variant that reads the role of the actor (the admin of the fixtures)
\* again when it commits
delete_file_commit_Recheck(s) ==
    /\ reqs[s].op = "delete_file"
    /\ reqs[s].pc = "commit"
    /\ IF get_file_to_delete(reqs[s].file, users[test_admin]).status
            = HTTP_200_OK
       THEN /\ files' = [files EXCEPT ![reqs[s].file_id] = NoFile]
            /\ response' = Respond(s, HTTP_204_NO_CONTENT)
       ELSE /\ response' = Respond(s, HTTP_403_FORBIDDEN)
            /\ UNCHANGED files
    /\ reqs' = [reqs EXCEPT ![s] = Idle]
    /\ UNCHANGED <<users, nextFileId, storeVars, failed, histVars,
                   workerVars, pureVars>>

\* `await db.delete(file_to_delete); await db.commit()`: a DELETE that
\* matches no row (the row went away meanwhile) only warns
delete_file_commit(s) ==
    /\ reqs[s].op = "delete_file"
    /\ reqs[s].pc = "commit"
    /\ \E ok \in Outcomes :
        IF ok
        THEN /\ files' = [files EXCEPT ![reqs[s].file_id] = NoFile]
             /\ response' = Respond(s, HTTP_204_NO_CONTENT)
             /\ UNCHANGED failed
        ELSE /\ response' = Respond(s, HTTP_500_INTERNAL_SERVER_ERROR)
             /\ failed' = Failure("commit_delete", reqs[s].file_id)
             /\ UNCHANGED files
    /\ reqs' = [reqs EXCEPT ![s] = Idle]
    /\ UNCHANGED <<users, nextFileId, storeVars, histVars, workerVars, pureVars>>

(* ------------------------------------------------------------------ *)
(* POST /files/upload                                                  *)
(* ------------------------------------------------------------------ *)

\* a variant that names the object after the uploaded file
upload_file_KeyFromFilename(s, u, visibility, content_type, size, ext) ==
    /\ Free(s)
    /\ LET checked == upload_file_checks(users[u].role, visibility,
                                         content_type, size)
       IN IF checked # HTTP_201_CREATED
          THEN /\ response' = Send(Response("upload_file", 0, checked, {}))
               /\ UNCHANGED <<reqs, nextKey>>
          ELSE /\ nextKey \in DOMAIN files
               /\ nextKey' = nextKey + 1
               /\ reqs' = [reqs EXCEPT ![s] =
                      Request("upload_file", "s3", 0,
                              File(users[u].id, users[u].department_id,
                                   visibility, Len(ext), ext))]
               /\ UNCHANGED response
    /\ UNCHANGED <<dbVars, s3, jobs, s3_puts, s3_deletes, failed, histVars,
                   workerVars, pureVars>>

\* the checks, then file.filename.split(".")[-1] and uuid.uuid4(), and the
\* models.File object later added to the session
upload_file(s, u, visibility, content_type, size, ext) ==
    /\ Free(s)
    /\ LET checked == upload_file_checks(users[u].role, visibility,
                                         content_type, size)
       IN IF checked # HTTP_201_CREATED
          THEN /\ response' = Send(Response("upload_file", 0, checked, {}))
               /\ UNCHANGED <<reqs, nextKey>>
          ELSE /\ nextKey \in DOMAIN files
               /\ nextKey' = nextKey + 1
               /\ reqs' = [reqs EXCEPT ![s] =
                      Request("upload_file", "s3", 0,
                              File(users[u].id, users[u].department_id,
                                   visibility, nextKey, ext))]
               /\ UNCHANGED response
    /\ UNCHANGED <<dbVars, s3, jobs, s3_puts, s3_deletes, failed, histVars,
                   workerVars, pureVars>>

upload_file_to_s3_Swallowed(s) ==
    /\ reqs[s].op = "upload_file"
    /\ reqs[s].pc = "s3"
    /\ \E ok \in Outcomes :
        IF ok
        THEN /\ s3' = s3 \cup {reqs[s].file.s3_path}
             /\ s3_puts' = s3_puts \cup {reqs[s].file.s3_path}
             /\ UNCHANGED failed
        ELSE /\ failed' = Failure("upload_fileobj", reqs[s].file.s3_path)
             /\ UNCHANGED <<s3, s3_puts>>
    /\ reqs' = [reqs EXCEPT ![s].pc = "commit"]
    /\ UNCHANGED <<dbVars, nextKey, jobs, response, s3_deletes, histVars,
                   workerVars, pureVars>>

\* upload_file_to_s3: upload_fileobj stores the bytes under the key or
\* raises, and the handler ends there
upload_file_to_s3(s) ==
    /\ reqs[s].op = "upload_file"
    /\ reqs[s].pc = "s3"
    /\ \E ok \in Outcomes :
        IF ok
        THEN /\ s3' = s3 \cup {reqs[s].file.s3_path}
             /\ s3_puts' = s3_puts \cup {reqs[s].file.s3_path}
             /\ reqs' = [reqs EXCEPT ![s].pc = "commit"]
             /\ UNCHANGED <<response, failed>>
        ELSE /\ response' = Respond(s, HTTP_500_INTERNAL_SERVER_ERROR)
             /\ reqs' = [reqs EXCEPT ![s] = Idle]
             /\ failed' = Failure("upload_fileobj", reqs[s].file.s3_path)
             /\ UNCHANGED <<s3, s3_puts>>
    /\ UNCHANGED <<dbVars, nextKey, jobs, s3_deletes, histVars, workerVars, pureVars>>

\* `db.add(file_db); await db.commit(); await db.refresh(file_db)`
upload_file_commit(s) ==
    /\ reqs[s].op = "upload_file"
    /\ reqs[s].pc = "commit"
    /\ \E ok \in Outcomes :
        IF ok
        THEN /\ files' = [files EXCEPT ![nextFileId] = reqs[s].file]
             /\ nextFileId' = nextFileId + 1
             /\ reqs' = [reqs EXCEPT ![s].pc = "delay",
                                     ![s].file_id = nextFileId]
             /\ UNCHANGED <<response, failed>>
        ELSE /\ response' = Respond(s, HTTP_500_INTERNAL_SERVER_ERROR)
             /\ reqs' = [reqs EXCEPT ![s] = Idle]
             /\ failed' = Failure("commit_upload", reqs[s].file.s3_path)
             /\ UNCHANGED <<files, nextFileId>>
    /\ UNCHANGED <<users, storeVars, histVars, workerVars, pureVars>>

\* a variant that waits for the result of the task before it answers
extract_metadata_delay_Get(s) ==
    /\ reqs[s].op = "upload_file"
    /\ reqs[s].pc = "delay"
    /\ \/ /\ reqs[s].file_id \notin jobs \cup ran
          /\ worker.file_id # reqs[s].file_id
          /\ jobs' = jobs \cup {reqs[s].file_id}
          /\ UNCHANGED <<response, reqs>>
       \/ /\ reqs[s].file_id \in ran
          /\ response' = Respond(s, HTTP_201_CREATED)
          /\ reqs' = [reqs EXCEPT ![s] = Idle]
          /\ UNCHANGED jobs
    /\ UNCHANGED <<dbVars, nextKey, s3, s3_puts, s3_deletes, failed, histVars,
                   workerVars, pureVars>>

\* `extract_metadata.delay(file_db.id); return file_db`
extract_metadata_delay(s) ==
    /\ reqs[s].op = "upload_file"
    /\ reqs[s].pc = "delay"
    /\ \E ok \in Outcomes :
        IF ok
        THEN /\ jobs' = jobs \cup {reqs[s].file_id}
             /\ response' = Respond(s, HTTP_201_CREATED)
             /\ UNCHANGED failed
        ELSE /\ response' = Respond(s, HTTP_500_INTERNAL_SERVER_ERROR)
             /\ failed' = Failure("delay", reqs[s].file_id)
             /\ UNCHANGED jobs
    /\ reqs' = [reqs EXCEPT ![s] = Idle]
    /\ UNCHANGED <<dbVars, nextKey, s3, s3_puts, s3_deletes, histVars,
                   workerVars, pureVars>>

(* ------------------------------------------------------------------ *)
(* The system                                                          *)
(* ------------------------------------------------------------------ *)

Next ==
    \E s \in DOMAIN reqs :
        \/ \E u \in DOMAIN users, file_id \in DOMAIN files :
               get_file_info(s, u, file_id)
        \/ \E u \in DOMAIN users : list_files_request(s, u)
        \/ \E u \in DOMAIN users, file_id \in DOMAIN files :
               download_file(s, u, file_id)
        \/ download_file_commit(s)
        \/ create_presigned_url(s)
        \/ \E u \in DOMAIN users, file_id \in DOMAIN files :
               delete_file(s, u, file_id)
        \/ delete_file_from_s3(s)
        \/ delete_file_commit(s)
        \/ \E u \in DOMAIN users, visibility \in FileVisibility,
              content_type \in RequestContentTypes, size \in RequestSizes,
              ext \in Exts :
               upload_file(s, u, visibility, content_type, size, ext)
        \/ upload_file_to_s3(s)
        \/ upload_file_commit(s)
        \/ extract_metadata_delay(s)

Spec == Init /\ [][Next]_vars


(* ------------------------------------------------------------------ *)
(* backend/tasks.py: the extract_metadata task                         *)
(* ------------------------------------------------------------------ *)

\* what a parsed document yields; 0 is None
PageCount == 3
Title == 1
Author == 1
CreatorTool == 1
CreatedDate == 1
ParagraphCount == 4
TableCount == 2

\* the outcome of a call: the exception it raised, or the value returned
Raised(exception) == [raised |-> exception, value |-> None]
Returned(value) == [raised |-> "none", value |-> value]

\* download_file_from_s3(settings, object_name), called with the
\* positional arguments args: a call that does not bind object_name raises
\* TypeError; otherwise the stream of the object (named here by its key),
\* or None when download_fileobj raises
download_file_from_s3(args) ==
    IF Len(args) # 2 THEN Raised("TypeError")
    ELSE IF args[2] \in s3 THEN Returned(args[2])
    ELSE Returned(None)

\* the keys of metadata_to_update in the order process_file_async assigns
\* them, for a file whose name ends in .pdf and in .docx
PdfColumns == <<"page_count", "title", "author", "creator_tool">>
DocxColumns == <<"author", "title", "created_date", "paragraph_count",
                 "table_count">>

\* what the parsers read from the stream
Parsed == [page_count |-> PageCount, title |-> Title, author |-> Author,
           creator_tool |-> CreatorTool, created_date |-> CreatedDate,
           paragraph_count |-> ParagraphCount, table_count |-> TableCount]

\* metadata_to_update when the `try` block is left: assigned counts the
\* assignments made before the parser raised (all of them when it did not
\* raise); the function of empty domain stands for the empty dict
metadata_to_update(file, assigned) ==
    LET columns == IF file.ext = "pdf" THEN PdfColumns
                   ELSE IF file.ext = "docx" THEN DocxColumns
                   ELSE <<>>
        done == IF assigned < Len(columns) THEN assigned ELSE Len(columns)
    IN [column \in {columns[i] : i \in 1..done} |-> Parsed[column]]

\* `for key, value in metadata_to_update.items(): setattr(file, key, value)`
setattr(file, update) ==
    [column \in DOMAIN file |->
        IF column \in DOMAIN update THEN update[column] ELSE file[column]]

\* the worker takes a task off the queue; process_file_async opens a
\* session and `session.get(models.File, file_id)`: no row, and it returns
process_file_async_get(file_id) ==
    /\ worker = NoWork
    /\ file_id \in jobs
    /\ jobs' = jobs \ {file_id}
    /\ IF files[file_id] = NoFile
       THEN /\ ran' = ran \cup {file_id}
            /\ UNCHANGED worker
       ELSE /\ worker' = Work("download", file_id, files[file_id])
            /\ UNCHANGED ran
    /\ UNCHANGED <<dbVars, nextKey, s3, s3_puts, s3_deletes, reqs, response,
                   failed, histVars, pureVars>>

\* `if metadata_to_update:` the setattr loop and `await session.commit()`,
\* an UPDATE of the columns set; it finds no row when the row is gone
commit_metadata(assigned) ==
    LET update == metadata_to_update(worker.file, assigned)
    IN IF DOMAIN update # {} /\ files[worker.file_id] # NoFile
       THEN files' = [files EXCEPT ![worker.file_id] = setattr(@, update)]
       ELSE UNCHANGED files

\* a variant that saves the row it holds whether or not the row and the
\* object are still there
process_file_async_download_Merge ==
    /\ worker.pc = "download"
    /\ files' = [files EXCEPT ![worker.file_id] =
           setattr(worker.file,
                   metadata_to_update(worker.file, Len(DocxColumns)))]
    /\ ran' = ran \cup {worker.file_id}
    /\ worker' = NoWork
    /\ UNCHANGED <<users, nextFileId, storeVars, reqs, response, failed,
                   histVars, pureVars>>

\* a variant that puts the task back in the queue when it raised
process_file_async_download_Retry ==
    /\ worker.pc = "download"
    /\ jobs' = jobs \cup {worker.file_id}
    /\ ran' = ran \cup {worker.file_id}
    /\ worker' = NoWork
    /\ UNCHANGED <<dbVars, nextKey, s3, s3_puts, s3_deletes, reqs, response,
                   failed, histVars, pureVars>>

\* `download_file_from_s3(file.s3_path)` and what follows it: parse, set
\* the columns, `await session.commit()`; an exception ends
\* process_file_async and extract_metadata catches it, an UPDATE of a row
\* that is gone raises too
process_file_async_download ==
    /\ worker.pc = "download"
    /\ LET file_stream == download_file_from_s3(<<worker.file.s3_path>>)
       IN IF file_stream.raised # "none" \/ file_stream.value = None
          THEN UNCHANGED files
          ELSE \E assigned \in 0..Len(DocxColumns) :
                 commit_metadata(assigned)
    /\ ran' = ran \cup {worker.file_id}
    /\ worker' = NoWork
    /\ UNCHANGED <<users, nextFileId, storeVars, reqs, response, failed,
                   histVars, pureVars>>

(* ------------------------------------------------------------------ *)
(* backend/routers/users.py                                             *)
(* ------------------------------------------------------------------ *)

\* the ids table users may hand out, and the departments of new users
UserIds == {1, 2}
NewDepartments == {1, 2}

\* require_role([UserRole.ADMIN, UserRole.MANAGER]) and the check_role it
\* returns
require_role_AnyRole(allowed_roles, current_user) == Return(NoFile)

require_role(allowed_roles, current_user) ==
    IF current_user.role \notin allowed_roles
    THEN Raise(HTTP_403_FORBIDDEN)
    ELSE Return(NoFile)

\* get_user_by_id: scalar_one_or_none, 404 when no row has the id
get_user_by_id(user_id) ==
    IF user_id \notin DOMAIN users
    THEN Raise(HTTP_404_NOT_FOUND)
    ELSE Return(NoFile)

\* POST /users/: taken tells whether a row has the username already
create_user(s, u, department_id, taken) ==
    /\ Free(s)
    /\ LET checked == require_role({ADMIN, MANAGER}, users[u])
       IN IF checked.status # HTTP_200_OK
          THEN /\ response' = Send(Response("create_user", 0,
                                            checked.status, {}))
               /\ UNCHANGED users
          ELSE IF taken
          THEN /\ response' = Send(Response("create_user", 0,
                                            HTTP_409_CONFLICT, {}))
               /\ UNCHANGED users
          ELSE /\ Len(users) + 1 \in UserIds
               /\ users' = Append(users,
                                  User(Len(users) + 1, USER, department_id))
               /\ response' = Send(Response("create_user", Len(users) + 1,
                                            HTTP_201_CREATED, {}))
    /\ UNCHANGED <<files, nextFileId, storeVars, reqs, failed, histVars,
                   workerVars, pureVars>>

\* GET /users/{user_id}: the dependencies run in the order of the
\* parameters, get_user_by_id before require_role
get_user_info(s, u, user_id) ==
    /\ Free(s)
    /\ LET user == get_user_by_id(user_id)
           checked == require_role({ADMIN, MANAGER}, users[u])
       IN response' = Send(Response("get_user_info", user_id,
              IF user.status # HTTP_200_OK THEN user.status
              ELSE checked.status, {}))
    /\ UNCHANGED <<dbVars, storeVars, reqs, failed, histVars, workerVars,
                   pureVars>>

\* PUT /users/{user_id}/role: get_user_by_id, then require_role, then
\* `user.role = new_data.role` and the commit
change_user_role(s, u, user_id, role) ==
    /\ Free(s)
    /\ LET user == get_user_by_id(user_id)
           checked == require_role({ADMIN, MANAGER}, users[u])
           status_code == IF user.status # HTTP_200_OK THEN user.status
                          ELSE checked.status
       IN /\ response' = Send(Response("change_user_role", user_id,
                                       status_code, {}))
          /\ users' = IF status_code = HTTP_200_OK
                      THEN [users EXCEPT ![user_id].role = role]
                      ELSE users
    /\ UNCHANGED <<files, nextFileId, storeVars, reqs, failed, histVars,
                   workerVars, pureVars>>

\* GET /users/?department_id=: 404 when the department has no user
get_users_by_department(s, u, department_id) ==
    /\ Free(s)
    /\ LET checked == require_role({ADMIN, MANAGER}, users[u])
           found == {id \in DOMAIN users :
                        users[id].department_id = department_id}
       IN response' = Send(Response("get_users_by_department", 0,
              IF checked.status # HTTP_200_OK THEN checked.status
              ELSE IF found = {} THEN HTTP_404_NOT_FOUND
              ELSE HTTP_200_OK, found))
    /\ UNCHANGED <<dbVars, storeVars, reqs, failed, histVars, workerVars,
                   pureVars>>

(* ------------------------------------------------------------------ *)
(* backend/routers/auth.py                                              *)
(* ------------------------------------------------------------------ *)

\* POST /auth/register, open to everyone: models.User(username,
\* password_hash), so role takes its default USER and department_id is
\* NULL; taken tells whether a row has the username already
register_user(s, taken) ==
    /\ Free(s)
    /\ IF taken
       THEN /\ response' = Send(Response("register_user", 0,
                                         HTTP_409_CONFLICT, {}))
            /\ UNCHANGED users
       ELSE /\ Len(users) + 1 \in UserIds
            /\ users' = Append(users, User(Len(users) + 1, USER, None))
            /\ response' = Send(Response("register_user", Len(users) + 1,
                                         HTTP_201_CREATED, {}))
    /\ UNCHANGED <<files, nextFileId, storeVars, reqs, failed, histVars,
                   workerVars, pureVars>>

(* ------------------------------------------------------------------ *)
(* The handlers together with the worker, one request at a time         *)
(* ------------------------------------------------------------------ *)

SystemFileIds == {1, 2}
SystemExts == {"pdf", "docx"}

\* a fresh installation: one ADMIN, no file, nothing in the bucket
InitBootstrap ==
    /\ users = <<User(1, ADMIN, 5)>>
    /\ files = [id \in SystemFileIds |-> NoFile]
    /\ nextFileId = 1
    /\ nextKey = 1
    /\ s3 = {}
    /\ jobs = {}
    /\ reqs = [s \in {1} |-> Idle]
    /\ s3_puts = {}
    /\ s3_deletes = {}
    /\ failed = {}
    /\ commits = [id \in SystemFileIds |-> 0]
    /\ grants = [id \in SystemFileIds |-> 0]
    /\ worker = NoWork
    /\ ran = {}
    /\ step = 0
    /\ probe = NoProbe
    /\ gate = NoGate

InitOfSystem ==
    /\ InitBootstrap
    /\ response = Untracked

\* the requests to /files, their uploads PRIVATE and named *.pdf or *.docx
FilesNext ==
    \E s \in DOMAIN reqs :
        \/ \E u \in DOMAIN users, file_id \in DOMAIN files :
               get_file_info(s, u, file_id)
        \/ \E u \in DOMAIN users : list_files_request(s, u)
        \/ \E u \in DOMAIN users, file_id \in DOMAIN files :
               download_file(s, u, file_id)
        \/ download_file_commit(s)
        \/ create_presigned_url(s)
        \/ \E u \in DOMAIN users, file_id \in DOMAIN files :
               delete_file(s, u, file_id)
        \/ delete_file_from_s3(s)
        \/ delete_file_commit(s)
        \/ \E u \in DOMAIN users, content_type \in RequestContentTypes,
              size \in RequestSizes, ext \in SystemExts :
               upload_file(s, u, PRIVATE, content_type, size, ext)
        \/ upload_file_to_s3(s)
        \/ upload_file_commit(s)
        \/ extract_metadata_delay(s)

\* the extract_metadata task
WorkerNext ==
    \/ \E file_id \in DOMAIN files : process_file_async_get(file_id)
    \/ process_file_async_download

\* the requests to /users
UsersNext ==
    \E s \in DOMAIN reqs, u \in DOMAIN users :
        \/ \E department_id \in NewDepartments, taken \in BOOLEAN :
              create_user(s, u, department_id, taken)
        \/ \E user_id \in UserIds : get_user_info(s, u, user_id)
        \/ \E user_id \in UserIds, role \in UserRole :
              change_user_role(s, u, user_id, role)
        \/ \E department_id \in NewDepartments :
              get_users_by_department(s, u, department_id)

\* no call to the database, the bucket or the queue raises
NextSystem ==
    \/ FilesNext /\ failed' = failed
    \/ WorkerNext /\ failed' = failed
    \/ UsersNext /\ failed' = failed

SpecSystem == InitOfSystem /\ [][NextSystem]_vars

(* ------------------------------------------------------------------ *)
(* The requests to /users on their own, responses recorded             *)
(* ------------------------------------------------------------------ *)

InitUsers ==
    /\ InitBootstrap
    /\ response = NoResponse

SpecUsers == InitUsers /\ [][UsersNext]_vars

(* ------------------------------------------------------------------ *)
(* One client at a time, responses recorded, uploads of every kind      *)
(* ------------------------------------------------------------------ *)

InitSession ==
    /\ users = SeedUsers
    /\ files = [id \in FileIds |-> NoFile]
    /\ nextFileId = 1
    /\ nextKey = 1
    /\ s3 = {}
    /\ jobs = {}
    /\ reqs = [s \in {1} |-> Idle]
    /\ s3_puts = {}
    /\ s3_deletes = {}
    /\ failed = {}
    /\ commits = [id \in FileIds |-> 0]
    /\ grants = [id \in FileIds |-> 0]
    /\ worker = NoWork
    /\ ran = {}
    /\ step = 0
    /\ response = NoResponse
    /\ probe = NoProbe
    /\ gate = NoGate

\* POST /files/upload of a file named *.pdf with every content type, and
\* sizes below every limit, above that of USER and above them all
SessionSizes == {1, MAX_FILE_SIZE_USER + 1, MAX_FILE_SIZE_ADMIN + 1}

UploadAny ==
    \E s \in DOMAIN reqs, u \in DOMAIN users, visibility \in FileVisibility,
       content_type \in ContentTypes, size \in SessionSizes :
        upload_file(s, u, visibility, content_type, size, "pdf")

\* no call to the database, the bucket or the queue raises
NextSession ==
    \/ Next /\ failed' = failed
    \/ UploadAny /\ failed' = failed

SpecSession == InitSession /\ [][NextSession]_vars

(* ------------------------------------------------------------------ *)
(* A scripted session: one client sends seven requests in turn         *)
(* ------------------------------------------------------------------ *)

\* the requests of the session: the handler and the actor, all for the
\* file the first of them uploads
Script == <<[op |-> "upload_file", u |-> test_user],
            [op |-> "get_file_info", u |-> test_user],
            [op |-> "get_file_info", u |-> test_another_user],
            [op |-> "get_file_info", u |-> test_admin],
            [op |-> "get_file_info", u |-> test_manager],
            [op |-> "delete_file", u |-> test_admin],
            [op |-> "get_file_info", u |-> test_user]>>

\* the client has the response to its last request and sends the next
client_sends ==
    /\ step < Len(Script)
    /\ \A s \in DOMAIN reqs : reqs[s] = Idle
    /\ step = 0 \/ response # NoResponse
    /\ step' = step + 1
    /\ response' = NoResponse
    /\ UNCHANGED <<dbVars, storeVars, reqs, failed, histVars, workerVars,
                   probe, gate>>

\* the handler of the request sent last starts
ScriptNext ==
    \E s \in DOMAIN reqs :
        /\ step \in DOMAIN Script
        /\ response = NoResponse
        /\ \/ /\ Script[step].op = "upload_file"
              /\ \E size \in {1, MAX_FILE_SIZE_USER}, ext \in Exts :
                    upload_file(s, Script[step].u, PRIVATE, PDF, size, ext)
           \/ /\ Script[step].op = "get_file_info"
              /\ get_file_info(s, Script[step].u, 1)
           \/ /\ Script[step].op = "delete_file"
              /\ delete_file(s, Script[step].u, 1)

\* a handler that has started goes on
HandlerNext ==
    \E s \in DOMAIN reqs :
        \/ upload_file_to_s3(s)
        \/ upload_file_commit(s)
        \/ extract_metadata_delay(s)
        \/ delete_file_from_s3(s)
        \/ delete_file_commit(s)

\* no call to the database, the bucket or the queue raises
NextScenario ==
    \/ client_sends
    \/ ScriptNext /\ failed' = failed
    \/ HandlerNext /\ failed' = failed
    \/ WorkerNext

SpecScenario == InitSession /\ [][NextScenario]_vars

(* ------------------------------------------------------------------ *)
(* process_file_async from the stream on (tasks.py, from `metadata_to_  *)
(* update = {}` to the commit), for every stored file                   *)
(* ------------------------------------------------------------------ *)

\* the rows a seeded user may have uploaded, stored under key 1
ExtractRows ==
    {File(users_row.id, users_row.department_id, visibility, 1, ext) :
        users_row \in {SeedUsers[u] : u \in DOMAIN SeedUsers},
        visibility \in FileVisibility, ext \in Exts}

\* the task holds the row and the stream of its object
InitExtract ==
    /\ users = SeedUsers
    /\ \E row \in ExtractRows :
          /\ files = [id \in FileIds |-> row]
          /\ worker = Work("parse", 1, row)
    /\ nextFileId = 2
    /\ nextKey = 2
    /\ s3 = {1}
    /\ jobs = {}
    /\ reqs = [s \in {1} |-> Idle]
    /\ s3_puts = {1}
    /\ s3_deletes = {}
    /\ failed = {}
    /\ commits = [id \in FileIds |-> 0]
    /\ grants = [id \in FileIds |-> 0]
    /\ ran = {}
    /\ step = 0
    /\ response = Untracked
    /\ probe = NoProbe
    /\ gate = NoGate

\* the `try` blocks of the parsers, left after any number of assignments,
\* and the commit of what was assigned
process_file_async_parse ==
    /\ worker.pc = "parse"
    /\ \E assigned \in 0..Len(DocxColumns) : commit_metadata(assigned)
    /\ ran' = ran \cup {worker.file_id}
    /\ worker' = NoWork
    /\ UNCHANGED <<users, nextFileId, storeVars, reqs, response, failed,
                   histVars, pureVars>>

SpecExtract == InitExtract /\ [][process_file_async_parse]_vars

(* ------------------------------------------------------------------ *)
(* The handlers of /files and the worker, calls that may raise, and    *)
(* handlers that go on once started                                    *)
(* ------------------------------------------------------------------ *)

NextUpload ==
    \/ Next
    \/ WorkerNext

\* the steps of upload_file after its checks: each call made returns or
\* raises, so a handler that has started reaches its end
UploadNext ==
    \E s \in DOMAIN reqs :
        \/ upload_file_to_s3(s)
        \/ upload_file_commit(s)
        \/ extract_metadata_delay(s)

\* the worker is under no such condition: a task may stay in the queue
SpecUpload == InitSession /\ [][NextUpload]_vars /\ WF_vars(UploadNext)

(* ------------------------------------------------------------------ *)
(* Requests of the admin for a stored file, next to role changes       *)
(* ------------------------------------------------------------------ *)

\* test_user's PRIVATE file is stored; two requests may be in flight
InitRace ==
    /\ users = SeedUsers
    /\ files = [id \in FileIds |->
                   File(SeedUsers[test_user].id,
                        SeedUsers[test_user].department_id, PRIVATE, 1, "pdf")]
    /\ nextFileId = 2
    /\ nextKey = 2
    /\ s3 = {1}
    /\ jobs = {}
    /\ reqs = [s \in Slots |-> Idle]
    /\ s3_puts = {1}
    /\ s3_deletes = {}
    /\ failed = {}
    /\ commits = [id \in FileIds |-> 0]
    /\ grants = [id \in FileIds |-> 0]
    /\ worker = NoWork
    /\ ran = {}
    /\ step = 0
    /\ response = NoResponse
    /\ probe = NoProbe
    /\ gate = NoGate

\* DELETE and GET .../download sent with the token of test_admin, and
\* PUT /users/{user_id}/role for test_admin sent by anyone
RaceNext ==
    \E s \in DOMAIN reqs :
        \/ \E file_id \in DOMAIN files : delete_file(s, test_admin, file_id)
        \/ delete_file_from_s3(s)
        \/ delete_file_commit(s)
        \/ \E file_id \in DOMAIN files : download_file(s, test_admin, file_id)
        \/ download_file_commit(s)
        \/ create_presigned_url(s)
        \/ \E u \in DOMAIN users, role \in UserRole :
              change_user_role(s, u, test_admin, role)

\* no call to the database or the bucket raises
NextRace == RaceNext /\ failed' = failed

SpecRace == InitRace /\ [][NextRace]_vars

(* ------------------------------------------------------------------ *)
(* Accounts: /auth/register next to the requests to /users and /files  *)
(* ------------------------------------------------------------------ *)

AuthNext ==
    \E s \in DOMAIN reqs, taken \in BOOLEAN : register_user(s, taken)

\* no call to the database, the bucket or the queue raises
NextAccounts ==
    \/ AuthNext /\ failed' = failed
    \/ UsersNext /\ failed' = failed
    \/ FilesNext /\ failed' = failed

SpecAccounts == InitOfSystem /\ [][NextAccounts]_vars

(* ------------------------------------------------------------------ *)
(* The access policy on its own: every actor against every table        *)
(* ------------------------------------------------------------------ *)

ProbeUserIds == {1, 2}
ProbeDepartments == {None} \cup (1..MaxDepts)
ProbeFileIds == {1, 2}

ProbeUsers ==
    {User(id, role, department_id) :
        id \in ProbeUserIds, role \in UserRole,
        department_id \in ProbeDepartments}

\* rows of table files; s3_path is filled in per row (it is unique)
ProbeRows ==
    {File(owner_id, department_id, visibility, 0, "pdf") :
        owner_id \in ProbeUserIds, department_id \in ProbeDepartments,
        visibility \in FileVisibility}

ProbeTables ==
    {[id \in ProbeFileIds |->
        IF rows[id] = NoFile THEN NoFile
        ELSE [rows[id] EXCEPT !.s3_path = id]] :
     rows \in [ProbeFileIds -> ProbeRows \cup {NoFile}]}

InitPolicy ==
    /\ InitSystem
    /\ response = Untracked
    /\ gate = NoGate
    /\ probe \in {Probe(current_user, table, file_id) :
                    current_user \in ProbeUsers, table \in ProbeTables,
                    file_id \in ProbeFileIds}

\* GET /files/{file_id}: get_file_info returns what get_file_for_user does
probe_get_file_info ==
    /\ probe.read = 0
    /\ probe' = [probe EXCEPT !.read =
           get_file_for_user(probe.table[probe.file_id],
                             probe.current_user).status]
    /\ UNCHANGED <<dbVars, storeVars, reqs, response, failed, histVars,
                   workerVars, gate, step>>

\* DELETE /files/{file_id} with no call failing: the dependency raises, or
\* the handler deletes the object and the row and returns 204
probe_delete_file ==
    /\ probe.delete = 0
    /\ LET got == get_file_to_delete(probe.table[probe.file_id],
                                     probe.current_user)
       IN probe' = IF got.status # HTTP_200_OK
                   THEN [probe EXCEPT !.delete = got.status]
                   ELSE [probe EXCEPT !.delete = HTTP_204_NO_CONTENT,
                                      !.after[probe.file_id] = NoFile]
    /\ UNCHANGED <<dbVars, storeVars, reqs, response, failed, histVars,
                   workerVars, gate, step>>

\* GET /files/
probe_list_files ==
    /\ ~probe.listed
    /\ probe' = [probe EXCEPT !.listed = TRUE,
                              !.listing = list_files(probe.table,
                                                     probe.current_user)]
    /\ UNCHANGED <<dbVars, storeVars, reqs, response, failed, histVars,
                   workerVars, gate, step>>

NextPolicy ==
    \/ probe_get_file_info
    \/ probe_delete_file
    \/ probe_list_files

SpecPolicy == InitPolicy /\ [][NextPolicy]_vars

(* ------------------------------------------------------------------ *)
(* The upload checks on their own: every role, type, size, visibility   *)
(* ------------------------------------------------------------------ *)

InitGate ==
    /\ InitSystem
    /\ response = Untracked
    /\ probe = NoProbe
    /\ gate \in [role : UserRole, visibility : FileVisibility,
                 content_type : ContentTypes, size : Sizes, status : {0}]

\* POST /files/upload up to the last check
gate_upload_file ==
    /\ gate.status = 0
    /\ gate' = [gate EXCEPT !.status =
           upload_file_checks(gate.role, gate.visibility, gate.content_type,
                              gate.size)]
    /\ UNCHANGED <<dbVars, storeVars, reqs, response, failed, histVars,
                   workerVars, probe, step>>

NextGate == gate_upload_file

SpecGate == InitGate /\ [][NextGate]_vars

(* ------------------------------------------------------------------ *)
(* Properties                                                          *)
(* ------------------------------------------------------------------ *)

\* C1: the read check lets an actor through exactly when the actor is
\* ADMIN, or owns the file, or the file is PUBLIC, or the file is
\* DEPARTMENT and the actor is MANAGER or of the file's department; in
\* every other case the answer is 403.
C1_ReadPolicy ==
    LET file == probe.table[probe.file_id]
        current_user == probe.current_user
        allowed ==
            \/ current_user.role = ADMIN
            \/ file.owner_id = current_user.id
            \/ file.visibility = PUBLIC
            \/ /\ file.visibility = DEPARTMENT
               /\ \/ current_user.role = MANAGER
                  \/ file.department_id = current_user.department_id
    IN (probe.read # 0 /\ file # NoFile) =>
           /\ allowed => probe.read = HTTP_200_OK
           /\ ~allowed => probe.read = HTTP_403_FORBIDDEN

\* a MANAGER of another department who does not own a DEPARTMENT file
\* has read it
C1_Witness ==
    LET file == probe.table[probe.file_id]
    IN /\ file # NoFile
       /\ file.visibility = DEPARTMENT
       /\ probe.current_user.role = MANAGER
       /\ file.owner_id # probe.current_user.id
       /\ file.department_id # probe.current_user.department_id
       /\ probe.read = HTTP_200_OK

\* C2: the delete check lets an actor through exactly when the actor is
\* ADMIN, or is MANAGER of the file's department, or is USER and owns
\* the file; in every other case the answer is 403 and the file is kept.
C2_DeletePolicy ==
    LET file == probe.table[probe.file_id]
        current_user == probe.current_user
        allowed ==
            \/ current_user.role = ADMIN
            \/ /\ current_user.role = MANAGER
               /\ file.department_id = current_user.department_id
            \/ /\ current_user.role = USER
               /\ file.owner_id = current_user.id
    IN (probe.delete # 0 /\ file # NoFile) =>
           /\ allowed => /\ probe.delete = HTTP_204_NO_CONTENT
                         /\ probe.after[probe.file_id] = NoFile
           /\ ~allowed => /\ probe.delete = HTTP_403_FORBIDDEN
                          /\ probe.after = probe.table

\* a MANAGER who owns a file of another department was refused and the
\* file is still there
C2_Witness ==
    LET file == probe.table[probe.file_id]
    IN /\ file # NoFile
       /\ probe.current_user.role = MANAGER
       /\ file.owner_id = probe.current_user.id
       /\ file.department_id # probe.current_user.department_id
       /\ probe.delete = HTTP_403_FORBIDDEN
       /\ probe.after[probe.file_id] = file

\* C3: a MANAGER whose department is that of a PRIVATE file they do not
\* own may delete the file, and is refused with 403 when reading it.
C3_ManagerDeletesUnreadable ==
    LET file == probe.table[probe.file_id]
        current_user == probe.current_user
    IN (/\ file # NoFile
        /\ file.visibility = PRIVATE
        /\ current_user.role = MANAGER
        /\ file.department_id = current_user.department_id
        /\ file.owner_id # current_user.id) =>
           /\ probe.delete # 0 =>
                  /\ probe.delete = HTTP_204_NO_CONTENT
                  /\ probe.after[probe.file_id] = NoFile
           /\ probe.read # 0 => probe.read = HTTP_403_FORBIDDEN

\* such a MANAGER has been refused the read and has deleted the file
C3_Witness ==
    LET file == probe.table[probe.file_id]
    IN /\ file # NoFile
       /\ file.visibility = PRIVATE
       /\ probe.current_user.role = MANAGER
       /\ file.department_id = probe.current_user.department_id
       /\ file.department_id # None
       /\ file.owner_id # probe.current_user.id
       /\ probe.read = HTTP_403_FORBIDDEN
       /\ probe.delete = HTTP_204_NO_CONTENT

\* C4: list_files returns to ADMIN every file; to MANAGER the files that
\* are PUBLIC or DEPARTMENT, of any department; to USER the PUBLIC files,
\* the DEPARTMENT files of the actor's department and the PRIVATE files
\* the actor owns.
C4_ListPolicy ==
    LET current_user == probe.current_user
        listed(file) ==
            CASE current_user.role = ADMIN -> TRUE
              [] current_user.role = MANAGER ->
                     file.visibility \in {PUBLIC, DEPARTMENT}
              [] current_user.role = USER ->
                     \/ file.visibility = PUBLIC
                     \/ /\ file.visibility = DEPARTMENT
                        /\ file.department_id = current_user.department_id
                     \/ /\ file.visibility = PRIVATE
                        /\ file.owner_id = current_user.id
    IN probe.listed =>
           probe.listing = {id \in DOMAIN probe.table :
                               /\ probe.table[id] # NoFile
                               /\ listed(probe.table[id])}

\* a MANAGER was listed a DEPARTMENT file of another department and not
\* the PRIVATE file next to it
C4_Witness ==
    /\ probe.listed
    /\ probe.current_user.role = MANAGER
    /\ \E id \in probe.listing :
          /\ probe.table[id].visibility = DEPARTMENT
          /\ probe.table[id].department_id # probe.current_user.department_id
    /\ \E id \in DOMAIN probe.table :
          /\ probe.table[id] # NoFile
          /\ probe.table[id].visibility = PRIVATE
          /\ id \notin probe.listing

\* C5: when download requests for one file run at the same time and all
\* of them succeed, the file's download count ends higher by their
\* number: once none is in flight and none has failed, the count is the
\* number of downloads granted.
C5_NoLostUpdate ==
    \A id \in DOMAIN files :
        (/\ files[id] # NoFile
         /\ \A s \in DOMAIN reqs :
                ~(reqs[s].op = "download_file" /\ reqs[s].file_id = id)
         /\ <<"commit_download", id>> \notin failed
         /\ <<"generate_presigned_url", id>> \notin failed) =>
            files[id].downloads = grants[id]

\* C6: when deleting the object from the bucket fails, delete_file ends
\* there and the record stays; a record leaves the table only after the
\* bucket has deleted its object.
C6_DeleteAbortsOnS3Failure ==
    [][/\ \A s \in DOMAIN reqs :
              (/\ reqs[s].op = "delete_file"
               /\ reqs[s].pc = "s3"
               /\ reqs'[s] # reqs[s]
               /\ <<"delete_object", reqs[s].file.s3_path>>
                      \in failed' \ failed) =>
                  /\ reqs'[s] = Idle
                  /\ files' = files
       /\ \A id \in DOMAIN files :
              (files[id] # NoFile /\ files'[id] = NoFile) =>
                  files[id].s3_path \in s3_deletes]_vars

\* the bucket has refused to delete an object, and both the record and
\* the object are still there
C6_Witness ==
    \E id \in DOMAIN files :
        /\ files[id] # NoFile
        /\ <<"delete_object", files[id].s3_path>> \in failed
        /\ files[id].s3_path \in s3
        /\ \A s \in DOMAIN reqs : reqs[s] = Idle

\* C7: every record of table files has an object that was put into the
\* bucket before; when the put fails the upload ends there, with no
\* record and no job; a job is enqueued only by an upload whose put
\* succeeded.
C7_RecordOnlyAfterPut ==
    [][/\ \A id \in DOMAIN files :
              (files[id] = NoFile /\ files'[id] # NoFile) =>
                  files'[id].s3_path \in s3_puts
       /\ \A s \in DOMAIN reqs :
              (/\ reqs[s].op = "upload_file"
               /\ reqs[s].pc = "s3"
               /\ reqs'[s] # reqs[s]
               /\ <<"upload_fileobj", reqs[s].file.s3_path>>
                      \in failed' \ failed) =>
                  /\ reqs'[s] = Idle
                  /\ files' = files
                  /\ jobs' = jobs
       /\ \A file_id \in jobs' \ jobs :
              \E s \in DOMAIN reqs :
                  /\ reqs[s].op = "upload_file"
                  /\ reqs[s].file_id = file_id
                  /\ reqs[s].file.s3_path \in s3_puts]_vars

\* a put has failed, and there is no record, no object and no job
C7_Witness ==
    /\ \E key \in DOMAIN files : <<"upload_fileobj", key>> \in failed
    /\ \A id \in DOMAIN files : files[id] = NoFile
    /\ s3 = {}
    /\ jobs = {}
    /\ \A s \in DOMAIN reqs : reqs[s] = Idle

\* C8: the download count of a file is the number of downloads granted
\* for it: requests that are refused, or that fail before the URL is
\* issued, leave it alone, and every granted download adds one.
C8_CountIsGrants ==
    \A id \in DOMAIN files :
        (/\ files[id] # NoFile
         /\ \A s \in DOMAIN reqs :
                ~(reqs[s].op = "download_file" /\ reqs[s].file_id = id)) =>
            files[id].downloads = grants[id]

\* C9: an upload of acceptable type and visibility is admitted when its
\* size is at most 10 MiB for USER, 50 MiB for MANAGER, 100 MiB for
\* ADMIN, the limit itself included; one byte more is answered 413.
C9_SizeLimits ==
    LET MiB == 1024 * 1024
        limit == CASE gate.role = USER -> 10 * MiB
                   [] gate.role = MANAGER -> 50 * MiB
                   [] gate.role = ADMIN -> 100 * MiB
        acceptable ==
            IF gate.role = USER
            THEN gate.content_type = PDF /\ gate.visibility = PRIVATE
            ELSE gate.content_type \in {PDF, DOCX}
    IN (gate.status # 0 /\ acceptable) =>
           /\ gate.size <= limit => gate.status = HTTP_201_CREATED
           /\ gate.size > limit =>
                  gate.status = HTTP_413_REQUEST_ENTITY_TOO_LARGE

\* a USER's PDF of exactly 10 MiB has been admitted
C9_Witness ==
    /\ gate.role = USER
    /\ gate.content_type = PDF
    /\ gate.visibility = PRIVATE
    /\ gate.size = 10 * 1024 * 1024
    /\ gate.status = HTTP_201_CREATED

\* C10: a DOCX upload by a USER is refused whatever its size and
\* visibility; a DOCX upload by a MANAGER or an ADMIN within the role's
\* size limit is admitted; an upload that is neither PDF nor DOCX is
\* refused for every role.
C10_ContentTypes ==
    LET MiB == 1024 * 1024
        within == \/ gate.role = MANAGER /\ gate.size <= 50 * MiB
                  \/ gate.role = ADMIN /\ gate.size <= 100 * MiB
        refused == gate.status \in {HTTP_400_BAD_REQUEST,
                                    HTTP_403_FORBIDDEN,
                                    HTTP_413_REQUEST_ENTITY_TOO_LARGE}
    IN gate.status # 0 =>
           /\ (gate.role = USER /\ gate.content_type = DOCX) => refused
           /\ (gate.content_type = DOCX /\ within) =>
                  gate.status = HTTP_201_CREATED
           /\ gate.content_type \notin {PDF, DOCX} => refused

\* a USER's small PRIVATE DOCX has been refused for its type
C10_Witness ==
    /\ gate.role = USER
    /\ gate.content_type = DOCX
    /\ gate.visibility = PRIVATE
    /\ gate.size = 1
    /\ gate.status = HTTP_400_BAD_REQUEST

\* C11: an upload by a USER that asks for visibility DEPARTMENT or PUBLIC
\* is answered 403 whatever its content type and size, and nothing
\* changes: no object, no record, no job, no request left running;
\* MANAGER and ADMIN are admitted with every visibility.
C11_UserUploadsPrivateOnly ==
    [][\A s \in DOMAIN reqs, u \in DOMAIN users,
          visibility \in FileVisibility, content_type \in ContentTypes,
          size \in SessionSizes :
          upload_file(s, u, visibility, content_type, size, "pdf") =>
              /\ (users[u].role = USER /\ visibility # PRIVATE) =>
                     /\ response'.op = "upload_file"
                     /\ response'.status = HTTP_403_FORBIDDEN
                     /\ UNCHANGED <<files, nextFileId, nextKey, s3, jobs,
                                    s3_puts, reqs, worker>>
              /\ (/\ users[u].role \in {MANAGER, ADMIN}
                  /\ content_type \in {PDF, DOCX}
                  /\ size <= 50 * 1024 * 1024) =>
                     /\ reqs'[s].op = "upload_file"
                     /\ reqs'[s].file.visibility = visibility]_vars

\* an upload was answered 403 and there is no record, no object, no job
C11_Witness ==
    /\ response.op = "upload_file"
    /\ response.status = HTTP_403_FORBIDDEN
    /\ \A id \in DOMAIN files : files[id] = NoFile
    /\ s3 = {}
    /\ jobs = {}
    /\ \A s \in DOMAIN reqs : reqs[s] = Idle

\* C12: a delete of a file id that has no record is answered 404 for
\* every actor, never 403, and starts nothing; a delete answered 204 has
\* removed the record, and an id whose record was removed gets no record
\* again, so every later delete of it is answered 404.
C12_DeleteMissingIsNotFound ==
    [][/\ \A s \in DOMAIN reqs, u \in DOMAIN users, id \in DOMAIN files :
              (delete_file(s, u, id) /\ files[id] = NoFile) =>
                  /\ response'.op = "delete_file"
                  /\ response'.status = HTTP_404_NOT_FOUND
                  /\ UNCHANGED <<files, reqs, s3>>
       /\ \A s \in DOMAIN reqs :
              (delete_file_commit(s) /\ response'.status = HTTP_204_NO_CONTENT)
                  => files'[reqs[s].file_id] = NoFile
       /\ \A id \in DOMAIN files :
              (id < nextFileId /\ files[id] = NoFile) => files'[id] = NoFile
      ]_vars

\* a file was uploaded and deleted, and a second delete was answered 404
C12_Witness ==
    /\ response.op = "delete_file"
    /\ response.status = HTTP_404_NOT_FOUND
    /\ response.file_id < nextFileId
    /\ files[response.file_id] = NoFile
    /\ s3_deletes # {}

\* C13: USER A of department 1 uploads a PRIVATE PDF; A gets it; USER B
\* of department 1 gets it; an ADMIN gets it; a MANAGER of department 2
\* gets it; the ADMIN deletes it; A gets it again: the answers are, in
\* this order, 201, 200, 403, 200, 403, 204, 404.
C13_Scenario ==
    LET Expected == <<HTTP_201_CREATED, HTTP_200_OK, HTTP_403_FORBIDDEN,
                      HTTP_200_OK, HTTP_403_FORBIDDEN, HTTP_204_NO_CONTENT,
                      HTTP_404_NOT_FOUND>>
    IN /\ users[test_user] = User(1, USER, 1)
       /\ users[test_another_user] = User(2, USER, 1)
       /\ users[test_admin].role = ADMIN
       /\ users[test_manager] = User(3, MANAGER, 2)
       /\ response # NoResponse =>
              /\ response.op = Script[step].op
              /\ response.status = Expected[step]

\* the seventh request has been answered
C13_Witness ==
    /\ step = 7
    /\ response.op = "get_file_info"
    /\ response.status = HTTP_404_NOT_FOUND
    /\ s3_deletes = {1}

C15_RoundTrip ==
    [][/\ \A s \in DOMAIN reqs, u \in DOMAIN users,
            visibility \in FileVisibility, content_type \in ContentTypes,
            size \in SessionSizes :
            (/\ upload_file(s, u, visibility, content_type, size, "pdf")
             /\ reqs'[s].op = "upload_file") =>
                /\ reqs'[s].file.visibility = visibility
                /\ reqs'[s].file.department_id = users[u].department_id
                /\ reqs'[s].file.owner_id = users[u].id
       /\ \A s \in DOMAIN reqs :
            upload_file_commit(s) => files'[nextFileId] = reqs[s].file
       /\ \A s \in DOMAIN reqs, u \in DOMAIN users, id \in DOMAIN files :
            (/\ get_file_info(s, u, id)
             /\ files[id] # NoFile
             /\ files[id].owner_id = users[u].id) =>
                /\ response'.status = HTTP_200_OK
                /\ response'.body.id = id
                /\ response'.body.visibility = files[id].visibility
                /\ response'.body.department_id = users[u].department_id
                /\ "owner_id" \in DOMAIN response'.body
                /\ response'.body.owner_id = users[u].id
      ]_vars

\* C16: when the extraction job runs for an uploaded file named *.pdf
\* whose record still exists and whose bytes are in the object store, the
\* job ends with the record's page_count set to the page count parsed from
\* those bytes.
C16_PageCountIsSet ==
    [][(/\ process_file_async_download
        /\ worker.file.ext = "pdf"
        /\ files[worker.file_id] # NoFile
        /\ worker.file.s3_path \in s3) =>
            files'[worker.file_id].page_count = PageCount]_vars

\* C17: the metadata columns of a file (author, title, created_date,
\* page_count, creator_tool, paragraph_count, table_count) are absent from
\* its creation on; only the last step of an extraction job for that file
\* changes one of them, and then to a value, never back to absent: uploads,
\* downloads, deletes, role changes and new users leave them as they are.
C17_MetadataFrame ==
    [][\A id \in DOMAIN files :
         files'[id] # NoFile =>
            IF files[id] = NoFile
            THEN \A column \in MetadataColumns : files'[id][column] = None
            ELSE \A column \in MetadataColumns :
                    files'[id][column] # files[id][column] =>
                        /\ worker.pc = "download"
                        /\ worker.file_id = id
                        /\ worker' = NoWork
                        /\ files'[id][column] # None]_vars

\* a file that was downloaded and whose extraction job has ended, next to
\* a second upload, after a role change, has no metadata
C17_Witness ==
    \E id \in DOMAIN files :
        /\ files[id] # NoFile
        /\ files[id].downloads > 0
        /\ id \in ran
        /\ files[id].s3_path \in s3
        /\ \A column \in MetadataColumns : files[id][column] = None
        /\ \E u \in DOMAIN users : users[u].role = MANAGER
        /\ \E s \in DOMAIN reqs : reqs[s].op = "upload_file"

\* C18: no two file records have the same storage key, and the storage
\* key of a record never changes; the key an upload takes is fresh (no
\* record has it, no object was ever stored under it), so that two uploads
\* of files with the same name get different keys.
C18_StorageKeys ==
    [][/\ \A a, b \in DOMAIN files :
            (a # b /\ files[a] # NoFile /\ files[b] # NoFile) =>
                files[a].s3_path # files[b].s3_path
       /\ \A id \in DOMAIN files :
            (files[id] # NoFile /\ files'[id] # NoFile) =>
                files'[id].s3_path = files[id].s3_path
       /\ \A s \in DOMAIN reqs :
            (reqs[s] = Idle /\ reqs'[s].op = "upload_file") =>
                /\ reqs'[s].file.s3_path \notin s3_puts
                /\ \A id \in DOMAIN files :
                      files[id] # NoFile =>
                          files[id].s3_path # reqs'[s].file.s3_path
       /\ \A s \in DOMAIN reqs :
            (reqs[s].op = "upload_file" /\ reqs'[s].op = "upload_file") =>
                reqs'[s].file.s3_path = reqs[s].file.s3_path]_vars

\* two records of files with the same name, under different keys
C18_Witness ==
    \E a, b \in DOMAIN files :
        /\ a # b
        /\ files[a] # NoFile
        /\ files[b] # NoFile
        /\ files[a].ext = files[b].ext
        /\ files[a].owner_id = files[b].owner_id
        /\ files[a].s3_path # files[b].s3_path
        /\ {files[a].s3_path, files[b].s3_path} \subseteq s3

\* C19: creating a user, reading a user by id, listing the users of a
\* department and changing a user's role succeed only for an ADMIN or a
\* MANAGER; for an actor of role USER each of them answers 403 and leaves
\* the users and their roles unchanged.
C19_UsersRoleGate ==
    [][\A s \in DOMAIN reqs, u \in DOMAIN users :
         (\/ \E department_id \in NewDepartments, taken \in BOOLEAN :
                create_user(s, u, department_id, taken)
          \/ \E user_id \in UserIds : get_user_info(s, u, user_id)
          \/ \E user_id \in UserIds, role \in UserRole :
                change_user_role(s, u, user_id, role)
          \/ \E department_id \in NewDepartments :
                get_users_by_department(s, u, department_id)) =>
            /\ response'.status \in {HTTP_200_OK, HTTP_201_CREATED} =>
                  users[u].role \in {ADMIN, MANAGER}
            /\ users[u].role = USER =>
                  /\ response'.status = HTTP_403_FORBIDDEN
                  /\ users' = users]_vars

\* C20: an extraction job that finds no record for its file id, or no
\* bytes under the key of the record, ends without writing anything; when
\* a delete of the file comes before the job loads the record or between
\* the load and the commit, the job does not bring the record back, and no
\* record exists for a deleted file afterwards.
C20_JobWritesNothingForDeleted ==
    [][/\ \A id \in DOMAIN files :
            (process_file_async_get(id) /\ files[id] = NoFile) =>
                /\ UNCHANGED <<files, users, s3, worker>>
                /\ id \in ran'
                /\ id \notin jobs'
       /\ (/\ process_file_async_download
           /\ \/ files[worker.file_id] = NoFile
              \/ worker.file.s3_path \notin s3) =>
                /\ UNCHANGED <<files, users, s3, jobs>>
                /\ worker.file_id \in ran'
       /\ \A id \in DOMAIN files :
            (worker # NoWork /\ worker' = NoWork /\ files[id] = NoFile) =>
                files'[id] = NoFile
       /\ \A id \in DOMAIN files :
            (id < nextFileId /\ files[id] = NoFile) =>
                /\ id < nextFileId'
                /\ files'[id] = NoFile]_vars

\* one job has ended whose file is deleted, another holds a record that
\* was deleted (row and object) after the job loaded it
C20_Witness ==
    \E a, b \in DOMAIN files :
        /\ a # b
        /\ a \in ran
        /\ files[a] = NoFile
        /\ worker.pc = "download"
        /\ worker.file_id = b
        /\ files[b] = NoFile
        /\ worker.file.s3_path \in s3_deletes

C23_OneJobPerUpload ==
    [][/\ \A id \in DOMAIN files :
            (id \notin jobs /\ id \in jobs') =>
                /\ \E s \in DOMAIN reqs :
                      /\ reqs[s].op = "upload_file"
                      /\ reqs[s].pc = "delay"
                      /\ reqs[s].file_id = id
                      /\ reqs'[s] = Idle
                /\ id < nextFileId
                /\ files[id] # NoFile
                /\ id \notin ran
                /\ worker.file_id # id
                /\ response'.op = "upload_file"
                /\ response'.status = HTTP_201_CREATED
                /\ jobs' = jobs \cup {id}
       /\ (response' # response /\ response'.op = "upload_file") =>
            IF response'.status = HTTP_201_CREATED
            THEN /\ response'.file_id \notin jobs
                 /\ jobs' = jobs \cup {response'.file_id}
            ELSE jobs' = jobs
       /\ \A id \in DOMAIN files :
            (id \in jobs /\ id \notin jobs') =>
                \/ worker' = Work("download", id, files[id])
                \/ files[id] = NoFile /\ id \in ran'
       /\ \A id \in DOMAIN files :
            (id \notin ran /\ id \in ran') =>
                /\ id \in jobs \/ worker.file_id = id
                /\ id \notin jobs']_vars

\* an upload was answered 201, its job has run and ended without writing,
\* and the queue is empty
C23_Witness ==
    /\ response.op = "upload_file"
    /\ response.status = HTTP_201_CREATED
    /\ response.file_id \in ran
    /\ files[response.file_id] # NoFile
    /\ files[response.file_id].page_count = None
    /\ jobs = {}
    /\ worker = NoWork

\* C24: if the record of an upload is committed and enqueuing the
\* extraction job fails, the record and the stored bytes remain, the file
\* is read under the normal access rules with all metadata columns absent,
\* no job for it is ever queued, and the upload is not reported as an
\* error.
C24_EnqueueFailureIsNoError ==
    [][/\ \A s \in DOMAIN reqs :
            (/\ extract_metadata_delay(s)
             /\ <<"delay", reqs[s].file_id>> \in failed') =>
                /\ files'[reqs[s].file_id] = reqs[s].file
                /\ reqs[s].file.s3_path \in s3'
                /\ reqs[s].file_id \notin jobs'
                /\ response'.status = HTTP_201_CREATED
       /\ \A id \in DOMAIN files :
            (<<"delay", id>> \in failed /\ files'[id] # NoFile) =>
                /\ id \notin jobs'
                /\ \A column \in MetadataColumns : files'[id][column] = None
       /\ \A s \in DOMAIN reqs, u \in DOMAIN users, id \in DOMAIN files :
            (/\ get_file_info(s, u, id)
             /\ <<"delay", id>> \in failed
             /\ files[id] # NoFile) =>
                response'.status
                    = get_file_for_user(files[id], users[u]).status]_vars

\* C25: get-file-info and download look the file up before they apply the
\* access policy: for an id with no record every actor is answered 404,
\* and 403 is answered only for a file that exists, so the two answers
\* tell an actor without access whether the file exists.
C25_ExistenceBeforePolicy ==
    [][\A s \in DOMAIN reqs, u \in DOMAIN users, id \in DOMAIN files :
         (get_file_info(s, u, id) \/ download_file(s, u, id)) =>
            /\ files[id] = NoFile =>
                  /\ response'.status = HTTP_404_NOT_FOUND
                  /\ response'.file_id = id
                  /\ reqs' = reqs
            /\ (response' # response
                    /\ response'.status = HTTP_403_FORBIDDEN) =>
                  files[id] # NoFile
            /\ (response' # response
                    /\ response'.status = HTTP_404_NOT_FOUND) =>
                  files[id] = NoFile]_vars

\* a download was refused with 403: the file exists
C25_Witness ==
    /\ response.op = "download_file"
    /\ response.status = HTTP_403_FORBIDDEN
    /\ files[response.file_id] # NoFile
    /\ files[response.file_id].visibility = PRIVATE

\* C26: a request decides with the role its actor has when the access
\* check runs; a role change committed by another request after the check
\* and before the request's action (the increment of the counter, the delete
\* of the object, the delete of the record) leaves the running request as
\* it is, and the request ends as it would have without the change.
C26_DecisionStands ==
    [][/\ \A s \in DOMAIN reqs, u \in DOMAIN users, role \in UserRole :
            change_user_role(s, u, test_admin, role) =>
                /\ reqs' = reqs
                /\ files' = files
                /\ s3' = s3
       /\ \A s \in DOMAIN reqs, file_id \in DOMAIN files :
            (delete_file(s, test_admin, file_id) /\ files[file_id] # NoFile) =>
                (reqs'[s].op = "delete_file"
                    <=> users[test_admin].role = ADMIN)
       /\ \A s \in DOMAIN reqs :
            delete_file_from_s3(s) =>
                /\ reqs[s].file.s3_path \notin s3'
                /\ reqs'[s].pc = "commit"
       /\ \A s \in DOMAIN reqs :
            delete_file_commit(s) =>
                /\ files'[reqs[s].file_id] = NoFile
                /\ response'.op = "delete_file"
                /\ response'.status = HTTP_204_NO_CONTENT
       /\ \A s \in DOMAIN reqs :
            (download_file_commit(s) /\ files[reqs[s].file_id] # NoFile) =>
                /\ files'[reqs[s].file_id].downloads = reqs[s].file.downloads
                /\ reqs'[s].pc = "presign"
       /\ \A s \in DOMAIN reqs :
            create_presigned_url(s) =>
                /\ response'.op = "download_file"
                /\ response'.status = HTTP_307_REDIRECT]_vars

\* the delete of test_admin was answered 204 after test_admin had lost the
\* role ADMIN: the change came between the access check and the commit
C26_Witness ==
    /\ response.op = "delete_file"
    /\ response.status = HTTP_204_NO_CONTENT
    /\ users[test_admin].role = USER
    /\ files[response.file_id] = NoFile
    /\ s3 = {}

\* C27: when an upload breaks several rules at once, the status follows
\* the order of the checks of the role: for a USER visibility (403), then
\* content type (400), then size (413); for a MANAGER or an ADMIN size
\* (413), then content type (400). An oversized DOCX of a USER is answered
\* 400, an oversized file of a forbidden type of a MANAGER 413.
C27_CheckOrder ==
    LET MiB == 1024 * 1024
        bad_visibility == gate.visibility # PRIVATE
        bad_type == IF gate.role = USER THEN gate.content_type # PDF
                    ELSE gate.content_type \notin {PDF, DOCX}
        too_large == gate.size > (CASE gate.role = USER -> 10 * MiB
                                    [] gate.role = MANAGER -> 50 * MiB
                                    [] gate.role = ADMIN -> 100 * MiB)
    IN gate.status # 0 =>
         /\ gate.role = USER =>
              /\ bad_visibility => gate.status = HTTP_403_FORBIDDEN
              /\ (~bad_visibility /\ bad_type) =>
                    gate.status = HTTP_400_BAD_REQUEST
              /\ (~bad_visibility /\ ~bad_type /\ too_large) =>
                    gate.status = HTTP_413_REQUEST_ENTITY_TOO_LARGE
         /\ gate.role \in {MANAGER, ADMIN} =>
              /\ too_large =>
                    gate.status = HTTP_413_REQUEST_ENTITY_TOO_LARGE
              /\ (~too_large /\ bad_type) =>
                    gate.status = HTTP_400_BAD_REQUEST

\* a USER's PRIVATE DOCX of 11 MiB has been refused for its type
C27_Witness ==
    /\ gate.role = USER
    /\ gate.visibility = PRIVATE
    /\ gate.content_type = DOCX
    /\ gate.size = 11 * 1024 * 1024
    /\ gate.status = HTTP_400_BAD_REQUEST

\* C28: a download is never granted for a file whose bytes are no longer
\* in the object store: whatever the interleaving of download_file with
\* delete_file of the same file, when download_file answers with a signed
\* URL the object under the storage key of the file exists.
C28_GrantedDownloadHasObject ==
    [][\A s \in DOMAIN reqs :
         (create_presigned_url(s) /\ grants' # grants) =>
            reqs[s].file.s3_path \in s3]_vars

\* C29: the listing never shows more than reading allows: for every
\* actor and every table of files, a file that list_files returns to the
\* actor is a file that get_file_for_user lets the same actor read.
C29_ListedIsReadable ==
    (/\ probe.listed
     /\ probe.read # 0
     /\ probe.file_id \in probe.listing) =>
        /\ probe.table[probe.file_id] # NoFile
        /\ probe.read = HTTP_200_OK

\* a USER was listed a DEPARTMENT file of its department that another
\* user owns, and read it
C29_Witness ==
    /\ probe.listed
    /\ probe.file_id \in probe.listing
    /\ probe.read = HTTP_200_OK
    /\ probe.current_user.role = USER
    /\ probe.table[probe.file_id].visibility = DEPARTMENT
    /\ probe.table[probe.file_id].owner_id # probe.current_user.id
    /\ probe.table[probe.file_id].department_id
           = probe.current_user.department_id

\* C30: every file an actor owns is in the actor's own listing, whatever
\* the actor's role and the file's visibility (a PRIVATE file uploaded by a
\* MANAGER included), as get_file_for_user lets the owner read it. (The
\* department of a file is its owner's, see C14.)
C30_OwnedIsListed ==
    (/\ probe.listed
     /\ probe.read # 0
     /\ probe.table[probe.file_id] # NoFile
     /\ probe.table[probe.file_id].owner_id = probe.current_user.id
     /\ probe.table[probe.file_id].department_id
            = probe.current_user.department_id) =>
        /\ probe.read = HTTP_200_OK
        /\ probe.file_id \in probe.listing

\* C31: the owner of a file can always delete it: in every state reached
\* through register, create-user, role changes, uploads, downloads and
\* deletes, the delete check lets the owner of an existing file through
\* whatever role the owner holds, as the department_id of a file is that of
\* its owner.
C31_OwnerMayDelete ==
    [][/\ \A id \in DOMAIN files :
            files[id] # NoFile =>
                \E u \in DOMAIN users :
                    /\ users[u].id = files[id].owner_id
                    /\ users[u].department_id = files[id].department_id
                    /\ get_file_to_delete(files[id], users[u]).status
                           = HTTP_200_OK
       /\ \A s \in DOMAIN reqs, u \in DOMAIN users, id \in DOMAIN files :
            (/\ delete_file(s, u, id)
             /\ files[id] # NoFile
             /\ files[id].owner_id = users[u].id) =>
                reqs'[s] = Request("delete_file", "s3", id, files[id])]_vars

\* a self-registered user, MANAGER by now, is deleting its own file: no
\* other user passes the delete check for it
C31_Witness ==
    \E s \in DOMAIN reqs, u \in DOMAIN users :
        /\ reqs[s].op = "delete_file"
        /\ reqs[s].file.owner_id = users[u].id
        /\ users[u].role = MANAGER
        /\ users[u].department_id = None
        /\ \A v \in DOMAIN users \ {u} :
              get_file_to_delete(reqs[s].file, users[v]).status
                  = HTTP_403_FORBIDDEN

\* C32: an absent department counts as a department match, in the read
\* check, the delete check and the list filter alike: a USER without
\* department reads and is listed the DEPARTMENT files of owners without
\* department, and a MANAGER without department may delete every file of
\* an owner without department.
C32_NoDepartmentMatches ==
    LET current_user == probe.current_user
        file == probe.table[probe.file_id]
    IN (/\ file # NoFile
        /\ current_user.department_id = None
        /\ file.department_id = None) =>
          /\ (/\ probe.read # 0
              /\ current_user.role = USER
              /\ file.visibility = DEPARTMENT) =>
                 probe.read = HTTP_200_OK
          /\ (/\ probe.listed
              /\ current_user.role = USER
              /\ file.visibility = DEPARTMENT) =>
                 probe.file_id \in probe.listing
          /\ (probe.delete # 0 /\ current_user.role = MANAGER) =>
                 /\ probe.delete = HTTP_204_NO_CONTENT
                 /\ probe.after[probe.file_id] = NoFile

\* a USER without department has read and been listed a DEPARTMENT file
\* without department that another user owns
C32_Witness ==
    /\ probe.current_user.role = USER
    /\ probe.current_user.department_id = None
    /\ probe.table[probe.file_id] # NoFile
    /\ probe.table[probe.file_id].department_id = None
    /\ probe.table[probe.file_id].visibility = DEPARTMENT
    /\ probe.table[probe.file_id].owner_id # probe.current_user.id
    /\ probe.read = HTTP_200_OK
    /\ probe.listed
    /\ probe.file_id \in probe.listing

\* C33: every user is created with role USER, by register and by
\* create-user alike; a role changes only in a change-role request whose
\* actor is ADMIN or MANAGER at that time: while every user is USER no
\* request makes anyone MANAGER or ADMIN, and the requests to /files never
\* change a role.
C33_RolesChangeByPrivilegedOnly ==
    [][/\ Len(users') >= Len(users)
       /\ \A i \in DOMAIN users' \ DOMAIN users : users'[i].role = USER
       /\ \A i \in DOMAIN users :
            /\ users'[i].id = users[i].id
            /\ users'[i].department_id = users[i].department_id
            /\ users'[i].role # users[i].role =>
                  \E s \in DOMAIN reqs, u \in DOMAIN users :
                      /\ users[u].role \in {ADMIN, MANAGER}
                      /\ change_user_role(s, u, i, users'[i].role)
       /\ (\A i \in DOMAIN users : users[i].role = USER) =>
              \A i \in DOMAIN users' : users'[i].role = USER]_vars

\* the only privileged user gave up its role; a user has registered since
\* and a file is stored: everyone is USER
C33_Witness ==
    /\ Len(users) = 2
    /\ \A i \in DOMAIN users : users[i].role = USER
    /\ users[2].department_id = None
    /\ \E id \in DOMAIN files :
          /\ files[id] # NoFile
          /\ files[id].owner_id = users[2].id
          /\ files[id].downloads > 0

====
